---- MODULE Spec2Model ----
(***************************************************************************)
(* Model of dipu's caching-allocator front end                             *)
(* (runtime/core/allocator/DIPUCachingAllocator.cpp): the algorithm        *)
(* registry (setAllocator), the per-device allocator lookup table          *)
(* (getAllocator / createAllocator), the stream-ordering proxy             *)
(* (DIPUDeviceCachingProxy::allocate) and recordStream.                    *)
(***************************************************************************)
EXTENDS Integers, Sequences, FiniteSets, TLC

(***************************************************************************)
(* Bounds of the model.                                                    *)
(***************************************************************************)
\* devproxy::getDeviceCount(): number of accelerator devices.
DeviceCount == 2
\* priorities are uint8_t in the code; the model draws them from 0..MaxPrio.
MaxPrio == 1
\* setAllocator is called at most MaxSetCalls times in one behaviour.
MaxSetCalls == 2
\* threads that call getAllocator concurrently.
NThreads == 2
\* streams of the current device; stream 0 is its default stream.
NStreams == 2
\* items (kernels and event waits) ever enqueued on one stream.
MaxQueue == 2
\* memory blocks the device can hand to the caching allocators.
NBlocks == 1

DIPU == "DIPU"
CPU == "CPU"
DevTypes == {DIPU, CPU}

\* Algorithm names a caller may register.
Names == {"BF", "BS"}
\* The registered std::function<c10::Allocator*(int)> objects.
Getters == {"g1", "g2"}
Priorities == 0..MaxPrio

\* A c10::Device: its type and its index, -1 when it has none.
NoIndex == 0 - 1
Devices ==
    [type : {DIPU}, index : {NoIndex} \cup (0..(DeviceCount - 1))]
        \cup [type : {CPU}, index : {NoIndex}]

is_cpu(device) == device.type = CPU
has_index(device) == device.index # NoIndex

dipu_default_memcaching_algorithm == "BF"

\* The value std::getenv gives for a configuration variable: one of the
\* names, or "unset" for a null pointer.
EnvValues == Names \cup {"unset"}
EnvNames == {"DIPU_DEVICE_MEMCACHING_ALGORITHM", "DIPU_HOST_MEMCACHING_ALGORITHM"}
\* Lines 50 and 55: env ? env : dipu_default_memcaching_algorithm
FromEnv(env) == IF env # "unset" THEN env ELSE dipu_default_memcaching_algorithm

\* nullptr, as the value of an empty slot of allocator_lookup_table.  An
\* allocator object is identified by the getter that made it, the index the
\* getter was given, the device type it was made for and a serial number
\* that tells apart the objects one getter made for one index.
Null == [getter |-> "nullptr", arg |-> NoIndex, type |-> "none", nth |-> 0]

VARIABLES
    registryPtr,       \* gDIPURegisteredAllocatorPtr is not null
    registry,          \* *gDIPURegisteredAllocatorPtr: device type -> name -> entry
    nSetCalls,         \* history: number of setAllocator calls so far
    used_allocator,    \* std::set<c10::Allocator*> used_allocator
    allocator_lookup_table, \* the static vector of getAllocator
    created,           \* history: every allocator object a getter has returned
    ctorCalls,         \* history: getter invocations made on behalf of each slot
    current_device,    \* devproxy::current_device()
    environ,           \* the process environment: the values of the two
                       \* configuration variables, "unset" when not set
    startup_environ,   \* history: environ when the static initialisers ran
    dipu_device_memcaching_algorithm,
    dipu_host_memcaching_algorithm,
    crashed,           \* the process died in createAllocator's null dereference
    pc,                \* per thread: where it is inside getAllocator
    frame,             \* per thread: the locals of its getAllocator activation
    returned,          \* history, per slot: the pointers getAllocator has returned
    dipu_register_allocator_mutex, \* the thread that holds the mutex, 0 if none
    current_stream,    \* getCurrentDIPUStream() of the calling thread
    queue,             \* per stream: every item enqueued on it, in order
    done,              \* per stream: how many of its items the device has retired
    blocks,            \* per memory block: owner, state, ctx->streams(), the
                       \* events taken when it was freed and, as history, the
                       \* length of each stream's queue at its last recordStream
    allocMark,         \* history, per stream: the length of the default stream's
                       \* queue at the last proxy allocation made on the stream
    max_allocated,     \* per allocator that has allocated: its high-water mark
                       \* of blocks handed to callers (max_memory_allocated)
    maxReturned,       \* history, per device argument: the largest value
                       \* maxMemoryAllocated(device) has returned so far
    lastCall           \* history: the last operation, its arguments and outcome

regVars == <<registryPtr, registry, nSetCalls>>
lookupVars == <<used_allocator, allocator_lookup_table, created, ctorCalls>>
envVars == <<environ, startup_environ, dipu_device_memcaching_algorithm,
            dipu_host_memcaching_algorithm>>
threadVars == <<pc, frame, returned, dipu_register_allocator_mutex>>
streamVars == <<current_stream, queue, done>>
memVars == <<blocks, allocMark, max_allocated, maxReturned>>

vars == <<regVars, lookupVars, envVars, threadVars, streamVars, memVars,
          current_device, crashed, lastCall>>

Slots == 0..DeviceCount
host_index == DeviceCount

EmptyMap == [x \in {} |-> x]
NoError == [kind |-> "none"]
\* history: "no entry was stored under this name" in lastCall.before
NoEntry == [getter |-> "none", priority |-> NoIndex]

\* operator<< of a uint8_t: the stream receives the character with that code,
\* not the decimal digits.
CharOf(byte) == [char |-> byte]

(***************************************************************************)
(* std::map helpers.                                                       *)
(***************************************************************************)
\* map.count(key) on the inner map of device_type (0 when the key is absent).
Count(reg, device_type, name) ==
    IF device_type \in DOMAIN reg /\ name \in DOMAIN reg[device_type]
    THEN 1 ELSE 0

\* std::map::operator[] on the outer map: default-inserts an empty inner map.
Subscript(reg, device_type) ==
    IF device_type \in DOMAIN reg THEN reg
    ELSE [d \in DOMAIN reg \cup {device_type} |->
            IF d = device_type THEN EmptyMap ELSE reg[d]]

\* gDIPURegisteredAllocator[device_type][name] = entry
Assign(reg, device_type, name, entry) ==
    LET r == Subscript(reg, device_type) IN
    [r EXCEPT ![device_type] =
        [n \in DOMAIN @ \cup {name} |-> IF n = name THEN entry ELSE @[n]]]

(***************************************************************************)
(* setAllocator: the outcome of one call on registry reg.                  *)
(***************************************************************************)
\* Mutants of setAllocator: the priority test reversed; the presence test made
\* on the device type's map instead of on the name; `<=` written for `<`.
setAllocatorReversed(reg, name, device_type, allocator_getter, priority) ==
    LET r == Subscript(reg, device_type)
        entry == [getter |-> allocator_getter, priority |-> priority] IN
    IF Count(r, device_type, name) <= 0
    THEN [registry |-> Assign(r, device_type, name, entry), error |-> NoError]
    ELSE IF r[device_type][name].priority > priority
         THEN [registry |-> Assign(r, device_type, name, entry), error |-> NoError]
         ELSE [registry |-> r,
               error |-> [kind |-> "TORCH_CHECK",
                          text |-> "A higher priority allocator is already registered for the same device:",
                          args |-> <<device_type, name, CharOf(priority)>>]]

setAllocatorAnyName(reg, name, device_type, allocator_getter, priority) ==
    LET r == Subscript(reg, device_type)
        entry == [getter |-> allocator_getter, priority |-> priority] IN
    IF DOMAIN r[device_type] = {}
    THEN [registry |-> Assign(r, device_type, name, entry), error |-> NoError]
    ELSE IF \A n \in DOMAIN r[device_type] : r[device_type][n].priority < priority
         THEN [registry |-> Assign(r, device_type, name, entry), error |-> NoError]
         ELSE [registry |-> r,
               error |-> [kind |-> "TORCH_CHECK",
                          text |-> "A higher priority allocator is already registered for the same device:",
                          args |-> <<device_type, name, CharOf(priority)>>]]

setAllocatorLessEq(reg, name, device_type, allocator_getter, priority) ==
    LET r == Subscript(reg, device_type)
        entry == [getter |-> allocator_getter, priority |-> priority] IN
    IF Count(r, device_type, name) <= 0
    THEN [registry |-> Assign(r, device_type, name, entry), error |-> NoError]
    ELSE IF r[device_type][name].priority <= priority
         THEN [registry |-> Assign(r, device_type, name, entry), error |-> NoError]
         ELSE [registry |-> r,
               error |-> [kind |-> "TORCH_CHECK",
                          text |-> "A higher priority allocator is already registered for the same device:",
                          args |-> <<device_type, name, CharOf(priority)>>]]

setAllocator(reg, name, device_type, allocator_getter, priority) ==
    LET r == Subscript(reg, device_type)
        entry == [getter |-> allocator_getter, priority |-> priority] IN
    IF Count(r, device_type, name) <= 0
    THEN [registry |-> Assign(r, device_type, name, entry), error |-> NoError]
    ELSE IF r[device_type][name].priority < priority
         THEN [registry |-> Assign(r, device_type, name, entry), error |-> NoError]
         ELSE [registry |-> r,
               error |-> [kind |-> "TORCH_CHECK",
                          text |-> "A higher priority allocator is already registered for the same device:",
                          args |-> <<device_type, name, CharOf(priority)>>]]

(***************************************************************************)
(* getDeviceIndex / createAllocator / getAllocator                         *)
(***************************************************************************)
\* A mutant of getDeviceIndex: the index of the device is ignored.
getDeviceIndexIgnoresIndex(device, host_idx, cur) ==
    IF is_cpu(device) THEN host_idx ELSE cur

\* A mutant of getDeviceIndex: a device without an index is taken to be the
\* first device, whatever device is current.
getDeviceIndexFirstDevice(device, host_idx, cur) ==
    IF is_cpu(device) THEN host_idx
    ELSE IF has_index(device) THEN device.index
    ELSE 0

getDeviceIndex(device, host_idx, cur) ==
    IF is_cpu(device) THEN host_idx
    ELSE IF has_index(device) THEN device.index
    ELSE cur

\* allocator_geter(device_index): the getter returns a new allocator object.
Invoke(allocator_geter, device_index, device_type, mk) ==
    [getter |-> allocator_geter, arg |-> device_index, type |-> device_type,
     nth |-> 1 + Cardinality({a \in mk : /\ a.getter = allocator_geter
                                         /\ a.arg = device_index
                                         /\ a.type = device_type})]

\* A mutant of createAllocator: the allocator is inserted into used_allocator
\* whatever its device type.
createAllocatorAllUsed(device, reg, mk, used, cur, devAlg, hostAlg) ==
    LET device_type == device.type
        algorithm == IF device_type = DIPU THEN devAlg ELSE hostAlg
        r == Subscript(reg, device_type) IN
    IF Count(r, device_type, algorithm) > 0
    THEN LET allocator_geter == r[device_type][algorithm].getter
             device_index == getDeviceIndex(device, 0, cur)
             allocator == Invoke(allocator_geter, device_index, device_type, mk) IN
         [registry |-> r, created |-> mk \cup {allocator},
          used |-> used \cup {allocator},
          result |-> allocator, invoked |-> TRUE, error |-> NoError]
    ELSE [registry |-> r, created |-> mk, used |-> used, result |-> Null,
          invoked |-> FALSE,
          error |-> [kind |-> "TORCH_CHECK",
                     text |-> "No allocator found for the device using the given algorithm:",
                     args |-> <<device_type, devAlg>>]]

\* The outcome of createAllocator(device) in the state (reg, mk, used):
\* the registry afterwards (operator[] may insert the device type's key), the
\* allocators made so far, used_allocator, the returned pointer and the error.
createAllocator(device, reg, mk, used, cur, devAlg, hostAlg) ==
    LET device_type == device.type
        algorithm == IF device_type = DIPU THEN devAlg ELSE hostAlg
        r == Subscript(reg, device_type) IN
    IF Count(r, device_type, algorithm) > 0
    THEN LET allocator_geter == r[device_type][algorithm].getter
             device_index == getDeviceIndex(device, 0, cur)
             allocator == Invoke(allocator_geter, device_index, device_type, mk) IN
         [registry |-> r, created |-> mk \cup {allocator},
          used |-> IF device_type = DIPU THEN used \cup {allocator} ELSE used,
          result |-> allocator, invoked |-> TRUE, error |-> NoError]
    ELSE [registry |-> r, created |-> mk, used |-> used, result |-> Null,
          invoked |-> FALSE,
          error |-> [kind |-> "TORCH_CHECK",
                     text |-> "No allocator found for the device using the given algorithm:",
                     args |-> <<device_type, devAlg>>]]

\* dynamic_cast<CacheAllocator*>(allocator) != nullptr: every registered
\* algorithm implements the caching-allocator interface.
IsCacheAllocator(allocator) == allocator.getter \in Getters

\* A mutant of getAllocator: the slot is not tested, every call creates.
getAllocatorNoMemo(device) ==
    LET device_index == getDeviceIndex(device, host_index, current_device)
        c == IF registryPtr
             THEN createAllocator(device, registry, created, used_allocator,
                                  current_device,
                                  dipu_device_memcaching_algorithm,
                                  dipu_host_memcaching_algorithm)
             ELSE [registry |-> registry, created |-> created,
                   used |-> used_allocator, result |-> Null, invoked |-> FALSE,
                   error |-> [kind |-> "null dereference"]] IN
    [registry |-> c.registry, created |-> c.created, used |-> c.used,
     table |-> IF c.error = NoError
               THEN [allocator_lookup_table EXCEPT ![device_index] = c.result]
               ELSE allocator_lookup_table,
     calls |-> IF c.invoked
               THEN [ctorCalls EXCEPT ![device_index] = @ + 1]
               ELSE ctorCalls,
     slot |-> device_index, result |-> c.result, error |-> c.error]

\* A mutant of getAllocator: the environment is read again at every creation.
getAllocatorRereadsEnv(device) ==
    LET device_index == getDeviceIndex(device, host_index, current_device)
        allocator == allocator_lookup_table[device_index] IN
    IF allocator = Null
    THEN LET c == IF registryPtr
                  THEN createAllocator(device, registry, created, used_allocator,
                                       current_device,
                                       FromEnv(environ["DIPU_DEVICE_MEMCACHING_ALGORITHM"]),
                                       FromEnv(environ["DIPU_HOST_MEMCACHING_ALGORITHM"]))
                  ELSE [registry |-> registry, created |-> created,
                        used |-> used_allocator, result |-> Null,
                        invoked |-> FALSE,
                        error |-> [kind |-> "null dereference"]] IN
         [registry |-> c.registry, created |-> c.created, used |-> c.used,
          table |-> IF c.error = NoError
                    THEN [allocator_lookup_table EXCEPT ![device_index] = c.result]
                    ELSE allocator_lookup_table,
          calls |-> IF c.invoked
                    THEN [ctorCalls EXCEPT ![device_index] = @ + 1]
                    ELSE ctorCalls,
          slot |-> device_index, result |-> c.result, error |-> c.error]
    ELSE [registry |-> registry, created |-> created, used |-> used_allocator,
          table |-> allocator_lookup_table, calls |-> ctorCalls,
          slot |-> device_index, result |-> allocator, error |-> NoError]

\* The outcome of getAllocator(device) in the current state, as one atomic
\* call.  With an empty slot and a null registry pointer createAllocator
\* dereferences the null unique_ptr (line 97) and the process dies.
getAllocator(device) ==
    LET device_index == getDeviceIndex(device, host_index, current_device)
        allocator == allocator_lookup_table[device_index] IN
    IF allocator = Null
    THEN LET c == IF registryPtr
                  THEN createAllocator(device, registry, created, used_allocator,
                                       current_device,
                                       dipu_device_memcaching_algorithm,
                                       dipu_host_memcaching_algorithm)
                  ELSE [registry |-> registry, created |-> created,
                        used |-> used_allocator, result |-> Null,
                        invoked |-> FALSE,
                        error |-> [kind |-> "null dereference"]] IN
         [registry |-> c.registry, created |-> c.created, used |-> c.used,
          table |-> IF c.error = NoError
                    THEN [allocator_lookup_table EXCEPT ![device_index] = c.result]
                    ELSE allocator_lookup_table,
          calls |-> IF c.invoked
                    THEN [ctorCalls EXCEPT ![device_index] = @ + 1]
                    ELSE ctorCalls,
          slot |-> device_index, result |-> c.result, error |-> c.error]
    ELSE [registry |-> registry, created |-> created, used |-> used_allocator,
          table |-> allocator_lookup_table, calls |-> ctorCalls,
          slot |-> device_index, result |-> allocator, error |-> NoError]

\* getAllocator(c10::DeviceType): the device has no index.
getAllocatorOfType(device_type) ==
    getAllocator([type |-> device_type, index |-> NoIndex])

\* The state change of a getAllocator call whose outcome is g.
ApplyGet(g) ==
    /\ registry' = g.registry
    /\ created' = g.created
    /\ used_allocator' = g.used
    /\ allocator_lookup_table' = g.table
    /\ ctorCalls' = g.calls
    /\ crashed' = (g.error.kind = "null dereference")
    /\ UNCHANGED <<registryPtr, nSetCalls>>

(***************************************************************************)
(* Initial state: nothing registered, every slot empty.  The two algorithm *)
(* names are read from the environment during static initialisation.       *)
(***************************************************************************)
\* Lines 48-56: the static initialisers of the two names read the environment.
StaticInit ==
    /\ startup_environ = environ
    /\ dipu_device_memcaching_algorithm =
          FromEnv(environ["DIPU_DEVICE_MEMCACHING_ALGORITHM"])
    /\ dipu_host_memcaching_algorithm =
          FromEnv(environ["DIPU_HOST_MEMCACHING_ALGORITHM"])

\* Neither configuration variable is set when the process starts.
EnvUnset ==
    /\ environ = [v \in EnvNames |-> "unset"]
    /\ StaticInit

Threads == 1..NThreads

\* getDefaultDIPUStream(): the default stream of the current device.
defaultStream == 0
Streams == 0..(NStreams - 1)
Blocks == 1..NBlocks
\* A block the device still holds: no allocator has reserved it.
\* history, per stream: no recordStream call has named the stream.
NotRecorded == [s \in Streams |-> NoIndex]
OnDevice == [owner |-> Null, state |-> "device", streams |-> {}, events |-> {},
             recorded |-> NotRecorded]
NoFrame == [device |-> [type |-> "none", index |-> NoIndex],
            device_index |-> NoIndex, allocator |-> Null]

InitLookup ==
    /\ used_allocator = {}
    /\ allocator_lookup_table = [i \in Slots |-> Null]
    /\ created = {}
    /\ ctorCalls = [i \in Slots |-> 0]
    /\ current_device = 0
    /\ crashed = FALSE
    /\ pc = [t \in Threads |-> "idle"]
    /\ frame = [t \in Threads |-> NoFrame]
    /\ returned = [i \in Slots |-> {}]
    /\ dipu_register_allocator_mutex = 0
    /\ current_stream = defaultStream
    /\ queue = [s \in Streams |-> << >>]
    /\ done = [s \in Streams |-> 0]
    /\ blocks = [b \in Blocks |-> OnDevice]
    /\ allocMark = [s \in Streams |-> 0]
    /\ max_allocated = EmptyMap
    /\ maxReturned = [device \in Devices |-> 0]
    /\ lastCall = [op |-> "init"]

InitRegistry ==
    /\ registryPtr = FALSE
    /\ registry = EmptyMap
    /\ nSetCalls = 0

\* Neither environment variable is set.
Init ==
    /\ InitRegistry
    /\ InitLookup
    /\ EnvUnset

\* Any setting of the two environment variables, once registration has
\* stored both algorithm names for both device types, each name with its
\* own getter.
InitEnv ==
    /\ registryPtr = TRUE
    /\ registry = [d \in DevTypes |->
                     [n \in Names |-> [getter |-> IF n = "BF" THEN "g1" ELSE "g2",
                                       priority |-> 0]]]
    /\ nSetCalls = MaxSetCalls
    /\ InitLookup
    /\ environ \in [EnvNames -> EnvValues]
    /\ StaticInit

(***************************************************************************)
(* Operations, each as one atomic call.                                    *)
(***************************************************************************)
SetAllocator(name, device_type, allocator_getter, priority) ==
    /\ ~crashed
    /\ nSetCalls < MaxSetCalls
    /\ nSetCalls' = nSetCalls + 1
    /\ LET s == setAllocator(registry, name, device_type, allocator_getter, priority) IN
        /\ registryPtr' = TRUE
        /\ registry' = s.registry
        /\ lastCall' = [op |-> "setAllocator", name |-> name,
                        device_type |-> device_type, getter |-> allocator_getter,
                        priority |-> priority,
                        before |-> IF Count(registry, device_type, name) > 0
                                   THEN registry[device_type][name]
                                   ELSE NoEntry,
                        error |-> s.error]
    /\ UNCHANGED <<lookupVars, envVars, threadVars, streamVars, memVars,
                   current_device, crashed>>

\* `fresh` is history: the call created the allocator it returned.
GetAllocator(device) ==
    /\ ~crashed
    /\ LET g == getAllocator(device) IN
        /\ ApplyGet(g)
        /\ lastCall' = [op |-> "getAllocator", device |-> device, slot |-> g.slot,
                        result |-> g.result, error |-> g.error,
                        fresh |-> g.result # Null /\ g.result \notin created]
    /\ UNCHANGED <<envVars, threadVars, streamVars, memVars, current_device>>

\* devproxy::setDevice: the calling thread makes another device current.
SetDevice(i) ==
    /\ ~crashed
    /\ i # current_device
    /\ current_device' = i
    /\ lastCall' = [op |-> "setDevice", index |-> i]
    /\ UNCHANGED <<regVars, lookupVars, envVars, threadVars, streamVars, memVars,
                   crashed>>

\* CacheAllocator::memory_reserved: blocks the allocator holds from the
\* device, cached or in use.
memory_reserved(bs, allocator) ==
    Cardinality({b \in Blocks : bs[b].owner = allocator})

\* CacheAllocator::memory_allocated: blocks currently handed to callers.
memory_allocated(bs, allocator) ==
    Cardinality({b \in Blocks : bs[b].owner = allocator /\ bs[b].state = "live"})

\* CacheAllocator::max_memory_allocated: the high-water mark of
\* memory_allocated, 0 for an allocator that has never allocated.
max_memory_allocated(maxes, allocator) ==
    IF allocator \in DOMAIN maxes THEN maxes[allocator] ELSE 0

\* The high-water marks after `allocator` handed out a block, bs being the
\* blocks after the allocation.
RaiseMax(maxes, allocator, bs) ==
    LET now == memory_allocated(bs, allocator)
        old == max_memory_allocated(maxes, allocator) IN
    [a \in DOMAIN maxes \cup {allocator} |->
        IF a = allocator THEN (IF now > old THEN now ELSE old) ELSE maxes[a]]

\* CacheAllocator::empty_cache: the allocator returns its cached, unused
\* blocks to the device.
empty_cache(bs, allocator) ==
    [b \in Blocks |-> IF bs[b].owner = allocator /\ bs[b].state = "cached"
                      THEN OnDevice ELSE bs[b]]

\* CacheAllocator::release_all_memory: the allocator returns every block it
\* holds, used or cached, to the device.
release_all_memory(bs, allocator) ==
    [b \in Blocks |-> IF bs[b].owner = allocator THEN OnDevice ELSE bs[b]]

\* The per-allocator operation each sweep calls (lines 146 and 161).
OperationOf(function_name) ==
    IF function_name = "emptyCachedMem" THEN "empty_cache"
    ELSE "release_all_memory"

\* The orders in which `for (auto& allocator : used_allocator)` may visit a
\* std::set of pointers: the order of the addresses of the objects.
Orders(S) ==
    {o \in [1..Cardinality(S) -> S] :
        \A i, j \in 1..Cardinality(S) : o[i] = o[j] => i = j}

\* A mutant of SweepLoop: the loop body never runs.
SweepLoopSkipsAll(function_name, order, failing, bs, invoked) ==
    [blocks |-> bs, invoked |-> invoked, error |-> NoError]

\* The loop of a sweep (lines 149-151, 164-166) over the remaining allocators
\* `order`.  The operation of allocator `failing` throws; nothing catches the
\* exception, so it leaves the loop and the function.  `invoked` counts the
\* calls of the operation on each allocator.
RECURSIVE SweepLoop(_, _, _, _, _)
SweepLoop(function_name, order, failing, bs, invoked) ==
    IF order = << >>
    THEN [blocks |-> bs, invoked |-> invoked, error |-> NoError]
    ELSE LET allocator == Head(order)
             cached_allocator == IsCacheAllocator(allocator)
             inv == [invoked EXCEPT ![allocator] = @ + 1] IN
         IF ~cached_allocator
         THEN SweepLoop(function_name, Tail(order), failing, bs, invoked)
         ELSE IF allocator = failing
         THEN [blocks |-> bs, invoked |-> inv,
               error |-> [kind |-> "exception", from |-> allocator]]
         ELSE SweepLoop(function_name, Tail(order), failing,
                        IF function_name = "emptyCachedMem"
                        THEN empty_cache(bs, allocator)
                        ELSE release_all_memory(bs, allocator),
                        inv)

\* A mutant of the sweeps: the allocators the sweep has visited are destroyed,
\* taken out of used_allocator and out of their slots.
SweepRunDetaching(function_name, failing) ==
    /\ ~crashed
    /\ \E order \in Orders(used_allocator) :
        LET run == SweepLoop(function_name, order, failing, blocks,
                             [a \in created |-> 0]) IN
        /\ blocks' = run.blocks
        /\ used_allocator' = {a \in used_allocator : run.invoked[a] = 0}
        /\ allocator_lookup_table' =
              [i \in Slots |->
                  IF /\ allocator_lookup_table[i] \in used_allocator
                     /\ run.invoked[allocator_lookup_table[i]] > 0
                  THEN Null ELSE allocator_lookup_table[i]]
        /\ lastCall' = [op |-> function_name,
                        operation |-> OperationOf(function_name),
                        invoked |-> run.invoked,
                        released |-> {b \in Blocks : run.blocks[b] # blocks[b]},
                        error |-> run.error]
    /\ UNCHANGED <<regVars, created, ctorCalls, envVars, threadVars, streamVars,
                   allocMark, max_allocated, maxReturned, current_device, crashed>>

\* emptyCachedMem / releaseAllDeviceMem: the per-allocator operation is
\* invoked on every member of used_allocator that is a CacheAllocator, in
\* the order of the set; the operation of allocator `failing` throws.
SweepRun(function_name, failing) ==
    /\ ~crashed
    /\ \E order \in Orders(used_allocator) :
        LET run == SweepLoop(function_name, order, failing, blocks,
                             [a \in created |-> 0]) IN
        /\ blocks' = run.blocks
        /\ lastCall' = [op |-> function_name,
                        operation |-> OperationOf(function_name),
                        invoked |-> run.invoked,
                        released |-> {b \in Blocks : run.blocks[b] # blocks[b]},
                        error |-> run.error]
    /\ UNCHANGED <<regVars, lookupVars, envVars, threadVars, streamVars,
                   allocMark, max_allocated, maxReturned, current_device, crashed>>

\* A sweep in which no per-allocator operation fails.
Sweep(function_name) == SweepRun(function_name, Null)

emptyCachedMem == Sweep("emptyCachedMem")
releaseAllDeviceMem == Sweep("releaseAllDeviceMem")

\* A sweep in which the operation of one allocator fails with a
\* device-runtime error.
SweepFailing(function_name) ==
    \E failing \in used_allocator : SweepRun(function_name, failing)

\* memoryReserved / memoryAllocated / maxMemoryReserved / maxMemoryAllocated:
\* each resolves the allocator with getAllocator(device) and returns one of
\* its counters, or 0 when the allocator is not a CacheAllocator.  `values`
\* holds what each function returns in this state (the counter behind
\* maxMemoryReserved is not modelled); `earlier` is history, the largest
\* value maxMemoryAllocated(device) had returned before this call; `follows`
\* is history, the sweep that completed immediately before this call.
StatsQuery(device) ==
    /\ ~crashed
    /\ LET g == getAllocator(device)
           cached_allocator == IsCacheAllocator(g.result)
           values ==
             [memoryReserved |-> IF cached_allocator
                                 THEN memory_reserved(blocks, g.result) ELSE 0,
              memoryAllocated |-> IF cached_allocator
                                  THEN memory_allocated(blocks, g.result) ELSE 0,
              maxMemoryAllocated |-> IF cached_allocator
                                     THEN max_memory_allocated(max_allocated, g.result)
                                     ELSE 0] IN
        /\ ApplyGet(g)
        /\ lastCall' = [op |-> "stats", device |-> device, slot |-> g.slot,
                        result |-> g.result, error |-> g.error,
                        values |-> values, earlier |-> maxReturned[device],
                        follows |->
                          IF /\ lastCall.op \in {"emptyCachedMem", "releaseAllDeviceMem"}
                             /\ lastCall.error = NoError
                          THEN [op |-> lastCall.op, released |-> lastCall.released]
                          ELSE [op |-> "other", released |-> {}]]
        /\ maxReturned' =
              IF g.error = NoError /\ values.maxMemoryAllocated > maxReturned[device]
              THEN [maxReturned EXCEPT ![device] = values.maxMemoryAllocated]
              ELSE maxReturned
    /\ UNCHANGED <<envVars, threadVars, streamVars, blocks, allocMark,
                   max_allocated, current_device>>

Next ==
    \/ \E n \in Names, d \in DevTypes, g \in Getters, p \in Priorities :
          SetAllocator(n, d, g, p)
    \/ \E device \in Devices : GetAllocator(device)
    \/ \E i \in 0..(DeviceCount - 1) : SetDevice(i)
    \/ emptyCachedMem
    \/ releaseAllDeviceMem
    \/ \E device \in Devices : StatsQuery(device)

Spec == Init /\ [][Next]_vars

\* setenv / unsetenv of one of the two configuration variables by the
\* process itself, after static initialisation.
SetEnv(variable, value) ==
    /\ ~crashed
    /\ environ[variable] # value
    /\ environ' = [environ EXCEPT ![variable] = value]
    /\ lastCall' = [op |-> "setenv", variable |-> variable, value |-> value]
    /\ UNCHANGED <<regVars, lookupVars, startup_environ,
                   dipu_device_memcaching_algorithm,
                   dipu_host_memcaching_algorithm, threadVars, streamVars,
                   memVars, current_device, crashed>>

\* Lookup under any setting of the environment, which may change while the
\* process runs.
NextEnv ==
    \/ \E device \in Devices : GetAllocator(device)
    \/ \E variable \in EnvNames, value \in EnvValues : SetEnv(variable, value)

SpecEnv == InitEnv /\ [][NextEnv]_vars

\* The registry alone: setAllocator calls and nothing else.
NextReg ==
    \E n \in Names, d \in DevTypes, g \in Getters, p \in Priorities :
        SetAllocator(n, d, g, p)

SpecReg == Init /\ [][NextReg]_vars

\* Registration and lookup: setAllocator and getAllocator calls in any
\* order, under any current device.
NextLookup ==
    \/ \E n \in Names, d \in DevTypes, g \in Getters, p \in Priorities :
          SetAllocator(n, d, g, p)
    \/ \E device \in Devices : GetAllocator(device)
    \/ \E i \in 0..(DeviceCount - 1) : SetDevice(i)

SpecLookup == Init /\ [][NextLookup]_vars

(***************************************************************************)
(* getAllocator as the threads execute it: the test of the slot (line     *)
(* 128), the call of createAllocator (line 129) and the store of its       *)
(* result into the slot are separate steps, and no lock is held.           *)
(***************************************************************************)
\* Lines 126-128: compute the index and test the slot.  A filled slot is
\* returned at once (line 131).
GA_Test(t, device) ==
    /\ ~crashed
    /\ pc[t] = "idle"
    /\ LET device_index == getDeviceIndex(device, host_index, current_device)
           allocator == allocator_lookup_table[device_index] IN
        IF allocator = Null
        THEN /\ pc' = [pc EXCEPT ![t] = "create"]
             /\ frame' = [frame EXCEPT ![t] = [device |-> device,
                                               device_index |-> device_index,
                                               allocator |-> Null]]
             /\ UNCHANGED returned
        ELSE /\ returned' = [returned EXCEPT ![device_index] = @ \cup {allocator}]
             /\ UNCHANGED <<pc, frame>>
    /\ UNCHANGED <<regVars, lookupVars, envVars, streamVars, memVars,
                   dipu_register_allocator_mutex, current_device, crashed,
                   lastCall>>

\* What createAllocator's unlocked access to the registry can come to while
\* another thread is inside setAllocator's critical section and changes the
\* map (a data race on the std::map): the access goes through, it walks a
\* tree that is being rebuilt and faults, or it misses the entry.
RaceOutcomes(t) ==
    IF \E u \in Threads \ {t} : pc[u] = "registering"
    THEN {"none", "fault", "missed"}
    ELSE {"none"}

\* Line 129, right-hand side: createAllocator(device).  The function takes
\* no lock.
GA_Create(t) ==
    /\ ~crashed
    /\ pc[t] = "create"
    /\ registryPtr
    /\ \E race \in RaceOutcomes(t) :
       LET c == createAllocator(frame[t].device, registry, created,
                                used_allocator, current_device,
                                dipu_device_memcaching_algorithm,
                                dipu_host_memcaching_algorithm) IN
        IF race = "fault"
        THEN /\ crashed' = TRUE
             /\ UNCHANGED <<registry, created, used_allocator, ctorCalls, pc, frame>>
        ELSE IF race = "missed"
        THEN /\ pc' = [pc EXCEPT ![t] = "idle"]
             /\ frame' = [frame EXCEPT ![t] = NoFrame]
             /\ UNCHANGED <<registry, created, used_allocator, ctorCalls, crashed>>
        ELSE /\ registry' = c.registry
             /\ created' = c.created
             /\ used_allocator' = c.used
             /\ ctorCalls' = IF c.invoked
                             THEN [ctorCalls EXCEPT ![frame[t].device_index] = @ + 1]
                             ELSE ctorCalls
             /\ IF c.error = NoError
                THEN /\ pc' = [pc EXCEPT ![t] = "store"]
                     /\ frame' = [frame EXCEPT ![t].allocator = c.result]
                ELSE /\ pc' = [pc EXCEPT ![t] = "idle"]
                     /\ frame' = [frame EXCEPT ![t] = NoFrame]
             /\ UNCHANGED crashed
    /\ UNCHANGED <<registryPtr, nSetCalls, allocator_lookup_table, envVars,
                   returned, dipu_register_allocator_mutex, streamVars, memVars,
                   current_device, lastCall>>

\* Line 129, the assignment to the slot, and line 131, the return.
GA_Store(t) ==
    /\ ~crashed
    /\ pc[t] = "store"
    /\ allocator_lookup_table' =
          [allocator_lookup_table EXCEPT ![frame[t].device_index] = frame[t].allocator]
    /\ returned' = [returned EXCEPT ![frame[t].device_index] =
                                        @ \cup {frame[t].allocator}]
    /\ pc' = [pc EXCEPT ![t] = "idle"]
    /\ frame' = [frame EXCEPT ![t] = NoFrame]
    /\ UNCHANGED <<regVars, used_allocator, created, ctorCalls, envVars,
                   dipu_register_allocator_mutex, streamVars, memVars,
                   current_device, crashed, lastCall>>

\* The state after static initialisation registered the default algorithm
\* for both device types.
InitConc ==
    /\ registryPtr = TRUE
    /\ registry = Assign(Assign(EmptyMap, DIPU, dipu_default_memcaching_algorithm,
                                [getter |-> "g1", priority |-> 0]),
                         CPU, dipu_default_memcaching_algorithm,
                         [getter |-> "g1", priority |-> 0])
    /\ nSetCalls = MaxSetCalls
    /\ InitLookup
    /\ EnvUnset

NextConc ==
    \/ \E t \in Threads, device \in Devices : GA_Test(t, device)
    \/ \E t \in Threads : GA_Create(t)
    \/ \E t \in Threads : GA_Store(t)

SpecConc == InitConc /\ [][NextConc]_vars

(***************************************************************************)
(* setAllocator as the threads execute it, next to getAllocator.           *)
(***************************************************************************)
\* Line 61: std::lock_guard<std::mutex> lock(dipu_register_allocator_mutex).
SA_Lock(t) ==
    /\ ~crashed
    /\ pc[t] = "idle"
    /\ nSetCalls < MaxSetCalls
    /\ dipu_register_allocator_mutex = 0
    /\ dipu_register_allocator_mutex' = t
    /\ pc' = [pc EXCEPT ![t] = "registering"]
    /\ UNCHANGED <<regVars, lookupVars, envVars, frame, returned, streamVars,
                   memVars, current_device, crashed, lastCall>>

\* Lines 62-80: the critical section and, at the end of the scope, the
\* release of the mutex.
SA_Register(t, name, device_type, allocator_getter, priority) ==
    /\ ~crashed
    /\ pc[t] = "registering"
    /\ LET s == setAllocator(registry, name, device_type, allocator_getter, priority) IN
        /\ registryPtr' = TRUE
        /\ registry' = s.registry
    /\ nSetCalls' = nSetCalls + 1
    /\ dipu_register_allocator_mutex' = 0
    /\ pc' = [pc EXCEPT ![t] = "idle"]
    /\ UNCHANGED <<lookupVars, envVars, frame, returned, streamVars, memVars,
                   current_device, crashed, lastCall>>

\* The default algorithm is registered for the accelerator type; further
\* registrations arrive while the threads use getAllocator.
InitLock ==
    /\ registryPtr = TRUE
    /\ registry = Assign(EmptyMap, DIPU, dipu_default_memcaching_algorithm,
                         [getter |-> "g1", priority |-> 0])
    /\ nSetCalls = 0
    /\ InitLookup
    /\ EnvUnset

NextLock ==
    \/ \E t \in Threads, device \in Devices : GA_Test(t, device)
    \/ \E t \in Threads : GA_Create(t)
    \/ \E t \in Threads : GA_Store(t)
    \/ \E t \in Threads : SA_Lock(t)
    \/ \E t \in Threads, n \in Names, d \in DevTypes, g \in Getters,
          p \in Priorities : SA_Register(t, n, d, g, p)

SpecLock == InitLock /\ [][NextLock]_vars

(***************************************************************************)
(* Streams and events of the current device.  An item of a stream is a     *)
(* kernel ("work") or the wait for an event; an event is the position its  *)
(* stream had reached in enqueueing when the event was recorded on it.     *)
(***************************************************************************)
NoEvent == [stream |-> NoIndex, mark |-> 0]
\* `after` is history: allocMark of the kernel's stream when it was enqueued.
Work(stream, after) ==
    [kind |-> "work", stream |-> stream, mark |-> 0, after |-> after]
Wait(event) ==
    [kind |-> "wait", stream |-> event.stream, mark |-> event.mark, after |-> 0]

\* DIPUEvent::record(stream) / DIPUEvent::wait(stream), applied in order to
\* the queues q; `event` is the DIPUEvent object of the caller.
RECURSIVE RunEventCalls(_, _, _)
RunEventCalls(calls, q, event) ==
    IF calls = << >> THEN q
    ELSE LET c == Head(calls) IN
         IF c.call = "record"
         THEN RunEventCalls(Tail(calls), q,
                            [stream |-> c.stream, mark |-> Len(q[c.stream])])
         ELSE IF event = NoEvent
              THEN RunEventCalls(Tail(calls), q, event)
              ELSE RunEventCalls(Tail(calls),
                                 [q EXCEPT ![c.stream] = Append(@, Wait(event))],
                                 event)

\* The device may run the next item of stream s: a wait is over once the
\* event's stream has retired everything enqueued before the event.
Ready(s) ==
    /\ done[s] < Len(queue[s])
    /\ LET item == queue[s][done[s] + 1] IN
        item.kind = "wait" => done[item.stream] >= item.mark

(***************************************************************************)
(* DIPUDeviceCachingProxy::allocate                                        *)
(***************************************************************************)
\* Mutants of EventCalls: the test inverted; the wait issued before the
\* record; no wait at all.
EventCallsInverted(currentStream, defStream) ==
    IF currentStream = defStream
    THEN << [call |-> "record", stream |-> defStream],
            [call |-> "wait", stream |-> currentStream] >>
    ELSE << >>

EventCallsNoWait(currentStream, defStream) ==
    IF currentStream # defStream
    THEN << [call |-> "record", stream |-> defStream] >>
    ELSE << >>

\* Lines 231-241: the calls on the local DIPUEvent that allocate makes before
\* it delegates.
EventCalls(currentStream, defStream) ==
    IF currentStream # defStream
    THEN << [call |-> "record", stream |-> defStream],
            [call |-> "wait", stream |-> currentStream] >>
    ELSE << >>

\* The caching allocator `allocator` may hand out block b: a block still on
\* the device (a new reservation), or one of its own cached blocks whose
\* events have all completed.
Reusable(b, allocator) ==
    /\ blocks[b].owner = allocator
    /\ blocks[b].state = "cached"
    /\ \A e \in blocks[b].events : done[e[1]] >= e[2]

\* Blocks still on the device are interchangeable: the lowest is reserved.
Available(allocator) ==
    {b \in Blocks : Reusable(b, allocator)}
        \cup {b \in Blocks : /\ blocks[b].state = "device"
                             /\ \A c \in 1..(b - 1) : blocks[c].state # "device"}

Live(allocator) ==
    [owner |-> allocator, state |-> "live", streams |-> {}, events |-> {},
     recorded |-> NotRecorded]

\* dipu_default_device_allocator(dipu::DIPU_DEVICE_TYPE), line 250.
device_type_ == DIPU

\* Line 242: the call that follows the event calls.
Delegate == [call |-> "getAllocator(device_type_)->allocate", stream |-> NoIndex]

\* The steps of allocate that use the DIPUEvent and can fail in the device
\* runtime: the creation of the device event (made when the event is first
\* recorded), the record and the wait.  None is reached on the default stream.
EventFailures(currentStream, defStream) ==
    IF EventCalls(currentStream, defStream) = << >> THEN {"none"}
    ELSE {"none", "create", "record", "wait"}

\* A mutant of AllocateCalls: a failure of an event call is swallowed and the
\* allocation is delegated all the same.
AllocateCallsSwallowed(currentStream, defStream, failing) ==
    Append(EventCalls(currentStream, defStream), Delegate)

\* Lines 231-242: the calls allocate makes, the last one being the call that
\* threw when `failing` is not "none": the exception of event.record or
\* event.wait is not caught, so nothing after the throwing call runs.
AllocateCalls(currentStream, defStream, failing) ==
    LET calls == EventCalls(currentStream, defStream) IN
    IF failing = "none" THEN Append(calls, Delegate)
    ELSE IF failing = "wait" THEN calls
    ELSE SubSeq(calls, 1, 1)

\* c10::DataPtr allocate(size_t size) const, lines 226-243.  The proxy object
\* dipu_default_device_allocator is made for DIPU_DEVICE_TYPE (line 250).
ProxyAllocate ==
    /\ ~crashed
    /\ \E failing \in EventFailures(current_stream, defaultStream) :
       LET made == AllocateCalls(current_stream, defaultStream, failing)
           delegated == made[Len(made)] = Delegate
           completed == IF failing = "none" THEN SubSeq(made, 1, Len(made) - 1)
                        ELSE IF failing = "wait" THEN SubSeq(made, 1, 1)
                        ELSE << >>
           q == RunEventCalls(completed, queue, NoEvent)
           g == getAllocatorOfType(device_type_)
           call == [op |-> "allocate", stream |-> current_stream,
                    calls |-> made, failing |-> failing,
                    allocator |-> g.result, recorded |-> NotRecorded] IN
        /\ \A s \in Streams : Len(q[s]) <= MaxQueue
        /\ queue' = q
        /\ IF ~delegated
           THEN /\ lastCall' = [call EXCEPT !.op = "allocate event failure",
                                            !.allocator = Null]
                /\ UNCHANGED <<regVars, lookupVars, memVars, crashed>>
           ELSE /\ ApplyGet(g)
                /\ IF g.error # NoError
                   THEN /\ lastCall' = [call EXCEPT !.op = "allocate failed"]
                        /\ UNCHANGED memVars
                   ELSE IF Available(g.result) = {}
                   THEN /\ lastCall' = [call EXCEPT !.op = "allocate out of memory"]
                        /\ UNCHANGED memVars
                   ELSE \E b \in Available(g.result) :
                        /\ blocks' = [blocks EXCEPT ![b] = Live(g.result)]
                        /\ max_allocated' =
                              RaiseMax(max_allocated, g.result,
                                       [blocks EXCEPT ![b] = Live(g.result)])
                        /\ UNCHANGED maxReturned
                        /\ allocMark' = [allocMark EXCEPT ![current_stream] =
                                            IF current_stream # defaultStream
                                            THEN Len(queue[defaultStream]) ELSE @]
                        /\ lastCall' = [call EXCEPT
                                          !.op = IF blocks[b].state = "device"
                                                 THEN "allocate new" ELSE "allocate reused",
                                          !.recorded = blocks[b].recorded]
    /\ UNCHANGED <<envVars, threadVars, current_stream, done, current_device>>

(***************************************************************************)
(* recordStream and the release of an allocation.                          *)
(***************************************************************************)
\* ptr.get_context() of a DataPtr that has no context.
NullCtx == 0
\* The DataPtr values a caller may hold: the live allocations, whose context
\* is their block, and a DataPtr without a context.
DataPtrs == {b \in Blocks : blocks[b].state = "live"} \cup {NullCtx}

\* A mutant of recordStream: the stream is not inserted.
recordStreamDropped(streams, stream) == streams

\* A mutant of recordStream: the set is overwritten with the one stream.
recordStreamOnlyLast(streams, stream) == {stream}

\* ctx->streams().insert(stream), line 208.
recordStream(streams, stream) == streams \cup {stream}

\* void recordStream(const c10::DataPtr& ptr, const DIPUStream& stream)
RecordStream(ptr, stream) ==
    /\ ~crashed
    /\ IF ptr # NullCtx
       THEN blocks' = [blocks EXCEPT
                ![ptr].streams = recordStream(@, stream),
                ![ptr].recorded = [@ EXCEPT ![stream] = Len(queue[stream])]]
       ELSE UNCHANGED blocks
    /\ lastCall' = [op |-> "recordStream", ptr |-> ptr, stream |-> stream]
    /\ UNCHANGED <<regVars, lookupVars, envVars, threadVars, streamVars, allocMark,
                   max_allocated, maxReturned, current_device, crashed>>

\* The DataPtr of live block b is destroyed: the caching allocator takes the
\* block back and records, for every stream of the context, the event whose
\* completion makes the block reusable.
Free(b) ==
    /\ ~crashed
    /\ blocks[b].state = "live"
    /\ blocks' = [blocks EXCEPT
            ![b].state = "cached",
            ![b].events = {<<s, Len(queue[s])>> : s \in blocks[b].streams}]
    /\ lastCall' = [op |-> "free", block |-> b]
    /\ UNCHANGED <<regVars, lookupVars, envVars, threadVars, streamVars, allocMark,
                   max_allocated, maxReturned, current_device, crashed>>

(***************************************************************************)
(* The caller and the device.                                              *)
(***************************************************************************)
\* The caller enqueues a kernel on stream s.
Launch(s) ==
    /\ ~crashed
    /\ Len(queue[s]) < MaxQueue
    /\ queue' = [queue EXCEPT ![s] = Append(@, Work(s, allocMark[s]))]
    /\ lastCall' = [op |-> "launch", stream |-> s]
    /\ UNCHANGED <<regVars, lookupVars, envVars, threadVars, memVars,
                   current_stream, done, current_device, crashed>>

\* The device retires the next item of stream s.
Retire(s) ==
    /\ Ready(s)
    /\ done' = [done EXCEPT ![s] = @ + 1]
    /\ lastCall' = [op |-> "retire", stream |-> s]
    /\ UNCHANGED <<regVars, lookupVars, envVars, threadVars, memVars,
                   current_stream, queue, current_device, crashed>>

\* setCurrentDIPUStream(s)
SetStream(s) ==
    /\ ~crashed
    /\ s # current_stream
    /\ current_stream' = s
    /\ lastCall' = [op |-> "setStream", stream |-> s]
    /\ UNCHANGED <<regVars, lookupVars, envVars, threadVars, memVars, queue, done,
                   current_device, crashed>>

\* The state after static initialisation registered the default algorithm
\* for the accelerator device type.
InitStream ==
    /\ registryPtr = TRUE
    /\ registry = Assign(EmptyMap, DIPU, dipu_default_memcaching_algorithm,
                         [getter |-> "g1", priority |-> 0])
    /\ nSetCalls = MaxSetCalls
    /\ InitLookup
    /\ EnvUnset

NextStream ==
    \/ ProxyAllocate
    \/ \E ptr \in DataPtrs, s \in Streams : RecordStream(ptr, s)
    \/ \E b \in Blocks : Free(b)
    \/ \E s \in Streams : Launch(s)
    \/ \E s \in Streams : Retire(s)
    \/ \E s \in Streams : SetStream(s)

SpecStream == InitStream /\ [][NextStream]_vars

(***************************************************************************)
(* Memory of several devices: callers allocate from the allocator of any   *)
(* device, release, sweep, query the statistics and switch the device.     *)
(***************************************************************************)
\* getAllocator(device)->allocate(size): a caller allocates from the
\* allocator that serves `device`.
Allocate(device) ==
    /\ ~crashed
    /\ LET g == getAllocator(device)
           call == [op |-> "direct allocate", device |-> device,
                    allocator |-> g.result, error |-> g.error] IN
        /\ ApplyGet(g)
        /\ IF g.error # NoError \/ Available(g.result) = {}
           THEN /\ lastCall' = [call EXCEPT !.op = "direct allocate failed"]
                /\ UNCHANGED memVars
           ELSE \E b \in Available(g.result) :
                /\ blocks' = [blocks EXCEPT ![b] = Live(g.result)]
                /\ max_allocated' =
                      RaiseMax(max_allocated, g.result,
                               [blocks EXCEPT ![b] = Live(g.result)])
                /\ lastCall' = call
                /\ UNCHANGED <<allocMark, maxReturned>>
    /\ UNCHANGED <<envVars, threadVars, streamVars, current_device>>

\* Sweeps with and without failures, over the allocators that getAllocator
\* has created so far for any device and under any current device.
NextSweep ==
    \/ \E device \in Devices : GetAllocator(device)
    \/ \E i \in 0..(DeviceCount - 1) : SetDevice(i)
    \/ emptyCachedMem
    \/ releaseAllDeviceMem
    \/ SweepFailing("emptyCachedMem")
    \/ SweepFailing("releaseAllDeviceMem")

SpecSweep == InitConc /\ [][NextSweep]_vars

(***************************************************************************)
(* getAllocator with any device a caller can construct.                    *)
(***************************************************************************)
\* The c10::Device values a caller can pass: device.index() is not compared
\* with device_count anywhere (lines 84-92, 126), so an accelerator device
\* may carry the index device_count or a larger one.
ArgDevices ==
    [type : {DIPU}, index : {NoIndex} \cup (0..(DeviceCount + 1))]
        \cup [type : {CPU}, index : {NoIndex}]

\* Line 126: the index getAllocator computes for `device`.
LookupIndex(device) == getDeviceIndex(device, host_index, current_device)

\* What allocator_lookup_table[device_index] does past the end of the vector
\* (line 127), where the behaviour is undefined: the read faults; or it
\* yields a non-null word, which is returned as the allocator; or it yields
\* null, createAllocator runs and its result is stored outside the vector
\* (the model lets this happen once in a behaviour).
OutOfBoundsOutcomes == {"fault", "wild pointer", "wild store"}

\* A word of memory that is not an allocator.
WildPointer == [getter |-> "wild", arg |-> NoIndex, type |-> "none", nth |-> 0]

\* getAllocator(device) when the computed index is outside the vector.
GetAllocatorOutOfBounds(device) ==
    /\ ~crashed
    /\ LookupIndex(device) \notin Slots
    /\ \E outcome \in OutOfBoundsOutcomes :
        LET c == IF outcome = "wild store" /\ registryPtr
                 THEN createAllocator(device, registry, created, used_allocator,
                                      current_device,
                                      dipu_device_memcaching_algorithm,
                                      dipu_host_memcaching_algorithm)
                 ELSE [registry |-> registry, created |-> created,
                       used |-> used_allocator,
                       result |-> IF outcome = "wild pointer"
                                  THEN WildPointer ELSE Null,
                       invoked |-> FALSE, error |-> NoError] IN
        /\ outcome = "wild store" => \A a \in created : a.arg \in Slots
        /\ registry' = c.registry
        /\ created' = c.created
        /\ used_allocator' = c.used
        /\ crashed' = (outcome = "fault" \/ (outcome = "wild store" /\ ~registryPtr))
        /\ lastCall' = [op |-> "getAllocator", device |-> device,
                        slot |-> LookupIndex(device), result |-> c.result,
                        error |-> IF outcome = "fault"
                                  THEN [kind |-> "out of bounds"] ELSE c.error,
                        fresh |-> c.invoked]
    /\ UNCHANGED <<registryPtr, nSetCalls, allocator_lookup_table, ctorCalls,
                   envVars, threadVars, streamVars, memVars, current_device>>

\* getAllocator(device) when the computed index is inside the vector.
GetAllocatorInBounds(device) ==
    /\ LookupIndex(device) \in Slots
    /\ GetAllocator(device)

NextIndex ==
    \/ \E device \in ArgDevices : GetAllocatorInBounds(device)
    \/ \E device \in ArgDevices : GetAllocatorOutOfBounds(device)
    \/ \E i \in 0..(DeviceCount - 1) : SetDevice(i)

\* The default algorithm is registered for both device types.
SpecIndex == InitConc /\ [][NextIndex]_vars

\* The proxy and getAllocator while the calling thread switches between the
\* devices; the thread stays on the default stream.
NextDevice ==
    \/ ProxyAllocate
    \/ \E device \in Devices : GetAllocator(device)
    \/ \E i \in 0..(DeviceCount - 1) : SetDevice(i)
    \/ \E b \in Blocks : Free(b)

SpecDevice == InitConc /\ [][NextDevice]_vars

NextMem ==
    \/ \E device \in Devices : Allocate(device)
    \/ \E b \in Blocks : Free(b)
    \/ emptyCachedMem
    \/ releaseAllDeviceMem
    \/ \E device \in Devices : StatsQuery(device)
    \/ \E i \in 0..(DeviceCount - 1) : SetDevice(i)

\* The default algorithm is registered for both device types.
SpecMem == InitConc /\ [][NextMem]_vars

(***************************************************************************)
(* The lookup table (getAllocator).                                        *)
(***************************************************************************)
\* C1 as stated: whatever the interleaving of the threads, the getter is
\* invoked at most once on behalf of a slot, and every caller of getAllocator
\* for that slot is handed the same pointer.
C1_SingleConstructionPerSlot ==
    \A i \in Slots : ctorCalls[i] <= 1 /\ Cardinality(returned[i]) <= 1

\* C2: a filled slot of the lookup table is never given another value, and a
\* successful getAllocator (alone or inside a statistics query) returns the
\* content of the slot its device resolves to; so two calls that resolve to
\* one slot return one object, whatever registrations, other getAllocator
\* calls, sweeps and statistics queries happen in between.
C2_SameDeviceSameAllocator ==
    [][/\ \A i \in Slots :
            allocator_lookup_table[i] # Null
                => allocator_lookup_table'[i] = allocator_lookup_table[i]
       /\ (lastCall'.op \in {"getAllocator", "stats"} /\ lastCall'.error = NoError)
            => /\ lastCall'.slot
                    = getDeviceIndex(lastCall'.device, host_index, current_device')
               /\ lastCall'.result # Null
               /\ lastCall'.result = allocator_lookup_table'[lastCall'.slot]]_vars

\* A later getAllocator on a slot that was filled before the algorithm was
\* registered again with another getter: the old object is returned.
C2_Witness ==
    /\ lastCall.op = "getAllocator"
    /\ lastCall.error = NoError
    /\ lastCall.device.type = DIPU
    /\ ctorCalls[lastCall.slot] = 1
    /\ lastCall.result = allocator_lookup_table[lastCall.slot]
    /\ registry[DIPU][dipu_device_memcaching_algorithm].getter # lastCall.result.getter

(***************************************************************************)
(* The stream-ordering proxy and the reuse of memory.                      *)
(***************************************************************************)
AllocateOps ==
    {"allocate new", "allocate reused", "allocate out of memory", "allocate failed"}

\* C3: the proxy's allocate records an event on the default stream, makes the
\* current stream wait for it and then delegates, exactly when the current
\* stream is not the default stream; otherwise it only delegates and no
\* stream's queue changes.  This is so whether the block handed out is new,
\* reused, or none.
C3_WaitExactlyOffDefaultStream ==
    [][lastCall'.op \in AllocateOps =>
        /\ lastCall'.stream = current_stream
        /\ IF current_stream # defaultStream
           THEN /\ lastCall'.calls =
                      << [call |-> "record", stream |-> defaultStream],
                         [call |-> "wait", stream |-> current_stream],
                         Delegate >>
                /\ queue' = [queue EXCEPT ![current_stream] =
                               Append(@, Wait([stream |-> defaultStream,
                                               mark |-> Len(queue[defaultStream])]))]
           ELSE /\ lastCall'.calls = << Delegate >>
                /\ queue' = queue]_vars

\* An allocation on a non-default stream that handed out a block never used
\* before, while the default stream had work enqueued.
C3_Witness ==
    /\ lastCall.op = "allocate new"
    /\ lastCall.stream # defaultStream
    /\ Len(queue[defaultStream]) > 0
    /\ Len(queue[lastCall.stream]) > 0
    /\ queue[lastCall.stream][Len(queue[lastCall.stream])].kind = "wait"

\* C4: a kernel enqueued on a non-default stream after a proxy allocation made
\* on that stream is not run before the default stream has retired everything
\* that was enqueued on it before the allocation.
C4_WorkAfterAllocateWaitsForDefault ==
    \A s \in Streams \ {defaultStream} :
        \A p \in 1..done[s] :
            queue[s][p].kind = "work" => done[defaultStream] >= queue[s][p].after

\* Such a kernel has run, and the default stream had work to retire first.
C4_Witness ==
    \E s \in Streams \ {defaultStream} :
        \E p \in 1..done[s] :
            /\ queue[s][p].kind = "work"
            /\ queue[s][p].after > 0

\* C5: when a caching allocator hands out one of its cached blocks again,
\* every stream that recordStream named for the block has retired all it had
\* enqueued when recordStream was called.
C5_NoReuseBeforeRecordedStreamsRetire ==
    lastCall.op = "allocate reused"
        => \A s \in Streams :
              lastCall.recorded[s] # NoIndex => done[s] >= lastCall.recorded[s]

\* A block is handed out again that had a stream with pending work recorded.
C5_Witness ==
    /\ lastCall.op = "allocate reused"
    /\ \E s \in Streams : lastCall.recorded[s] > 0

(***************************************************************************)
(* The registry (setAllocator).                                            *)
(***************************************************************************)
\* The step is a setAllocator call; its arguments are in lastCall'.
IsSetCall == nSetCalls' = nSetCalls + 1

Entry(getter, priority) == [getter |-> getter, priority |-> priority]

\* Every (device type, name) pair stored in reg.
Keys(reg) == {k \in DevTypes \X Names : Count(reg, k[1], k[2]) > 0}

\* C6: a registration whose priority is higher than that of the entry stored
\* under the same (device type, name) succeeds and replaces the entry by the
\* new getter and the new priority.
C6_HigherPriorityReplaces ==
    (/\ lastCall.op = "setAllocator"
     /\ lastCall.before # NoEntry
     /\ lastCall.before.priority < lastCall.priority)
    => /\ lastCall.error = NoError
       /\ Count(registry, lastCall.device_type, lastCall.name) > 0
       /\ registry[lastCall.device_type][lastCall.name]
             = Entry(lastCall.getter, lastCall.priority)

C6_Witness ==
    /\ lastCall.op = "setAllocator"
    /\ lastCall.before # NoEntry
    /\ lastCall.before.priority < lastCall.priority
    /\ lastCall.before.getter # lastCall.getter
    /\ registry[lastCall.device_type][lastCall.name]
          = Entry(lastCall.getter, lastCall.priority)

\* C7: a registration whose priority is lower than or equal to that of the
\* entry stored under the same (device type, name) fails with the TORCH_CHECK
\* error, whose message carries the device type, the name and the priority
\* of the rejected registration.
C7_LowerOrEqualFails ==
    (/\ lastCall.op = "setAllocator"
     /\ lastCall.before # NoEntry
     /\ lastCall.priority <= lastCall.before.priority)
    => /\ lastCall.error # NoError
       /\ lastCall.error.kind = "TORCH_CHECK"
       /\ lastCall.error.args
             = <<lastCall.device_type, lastCall.name, CharOf(lastCall.priority)>>

C7_Witness ==
    /\ lastCall.op = "setAllocator"
    /\ lastCall.before # NoEntry
    /\ lastCall.priority < lastCall.before.priority
    /\ lastCall.error # NoError
    /\ lastCall.error.kind = "TORCH_CHECK"

\* C8: a registration whose priority is lower than or equal to that of the
\* stored same-named entry changes nothing in the registry: the entry keeps
\* the first getter and priority, and no other key or entry changes.
C8_LowerOrEqualLeavesRegistry ==
    [][(/\ IsSetCall
        /\ Count(registry, lastCall'.device_type, lastCall'.name) > 0
        /\ lastCall'.priority
              <= registry[lastCall'.device_type][lastCall'.name].priority)
       => registry' = registry]_vars

C8_Witness ==
    /\ lastCall.op = "setAllocator"
    /\ lastCall.before # NoEntry
    /\ lastCall.priority <= lastCall.before.priority
    /\ lastCall.getter # lastCall.before.getter
    /\ registry[lastCall.device_type][lastCall.name] = lastCall.before

\* C9 as stated: a second call with the same name, device type, getter and
\* priority as the stored entry completes like the first one, without error.
C9_SecondIdenticalCallCompletes ==
    (/\ lastCall.op = "setAllocator"
     /\ lastCall.before = Entry(lastCall.getter, lastCall.priority))
    => lastCall.error = NoError

\* C9 as amended: a second call with the same name, device type, getter and
\* priority as the stored entry leaves the registry as the first call left
\* it, and fails with the TORCH_CHECK error.
C9_SecondIdenticalCallFails ==
    [][(/\ IsSetCall
        /\ Count(registry, lastCall'.device_type, lastCall'.name) > 0
        /\ registry[lastCall'.device_type][lastCall'.name]
              = Entry(lastCall'.getter, lastCall'.priority))
       => /\ registry' = registry
          /\ lastCall'.error.kind = "TORCH_CHECK"]_vars

C9_Witness ==
    /\ lastCall.op = "setAllocator"
    /\ lastCall.before = Entry(lastCall.getter, lastCall.priority)
    /\ registry[lastCall.device_type][lastCall.name] = lastCall.before
    /\ nSetCalls >= 2

\* C10: a registration under a name that is not yet stored for the device
\* type succeeds whatever other names are stored there and whatever their
\* priorities; it stores its own getter and priority and leaves every other
\* entry as it was.
C10_DistinctNamesNeverConflict ==
    [][(/\ IsSetCall
        /\ Count(registry, lastCall'.device_type, lastCall'.name) = 0)
       => /\ lastCall'.error = NoError
          /\ Count(registry', lastCall'.device_type, lastCall'.name) > 0
          /\ registry'[lastCall'.device_type][lastCall'.name]
                = Entry(lastCall'.getter, lastCall'.priority)
          /\ \A k \in Keys(registry) :
                /\ k \in Keys(registry')
                /\ registry'[k[1]][k[2]] = registry[k[1]][k[2]]]_vars

C10_Witness ==
    /\ lastCall.op = "setAllocator"
    /\ lastCall.error = NoError
    /\ lastCall.before = NoEntry
    /\ \E n \in DOMAIN registry[lastCall.device_type] :
          /\ n # lastCall.name
          /\ registry[lastCall.device_type][n].priority > lastCall.priority
          /\ registry[lastCall.device_type][n].getter # lastCall.getter
    /\ registry[lastCall.device_type][lastCall.name]
          = Entry(lastCall.getter, lastCall.priority)

(***************************************************************************)
(* The registry over the life of the process.                              *)
(***************************************************************************)
\* C11: the registry only grows.  In every step of a sequence of
\* setAllocator and getAllocator calls, each (device type, name)
\* entry that is present before the step is present after it, and its stored
\* priority is not lower than before.
C11_RegistryOnlyGrows ==
    [][\A d \in DOMAIN registry : \A n \in DOMAIN registry[d] :
          /\ d \in DOMAIN registry'
          /\ n \in DOMAIN registry'[d]
          /\ registry'[d][n].priority >= registry[d][n].priority]_vars

\* getAllocator has created an allocator from the registry, and afterwards a
\* registration of higher priority has replaced an entry.
C11_Witness ==
    /\ lastCall.op = "setAllocator"
    /\ lastCall.error = NoError
    /\ lastCall.before # NoEntry
    /\ lastCall.before.priority < lastCall.priority
    /\ created # {}

(***************************************************************************)
(* Resolution of the selected algorithm.                                   *)
(***************************************************************************)
\* Lines 98-100: the algorithm name createAllocator looks up for a device type.
SelectedAlgorithm(device_type) ==
    IF device_type = DIPU THEN dipu_device_memcaching_algorithm
    ELSE dipu_host_memcaching_algorithm

GetOps == {"getAllocator", "stats"}

\* C12: a getAllocator call (direct, or made by a statistics query) for an
\* empty slot, while the registry holds no entry under the selected algorithm
\* name of the device's type, ends in the "No allocator found" error, leaves
\* the lookup table and used_allocator as they were and the process alive;
\* this also when setAllocator was never called.
C12_MissingAlgorithmFailsCleanly ==
    [][(/\ lastCall'.op \in GetOps
        /\ allocator_lookup_table[lastCall'.slot] = Null
        /\ Count(registry, lastCall'.device.type,
                 SelectedAlgorithm(lastCall'.device.type)) = 0)
       => /\ lastCall'.error.kind = "TORCH_CHECK"
          /\ lastCall'.error.text =
                "No allocator found for the device using the given algorithm:"
          /\ ~crashed'
          /\ allocator_lookup_table' = allocator_lookup_table
          /\ used_allocator' = used_allocator]_vars

(***************************************************************************)
(* The global sweeps.                                                      *)
(***************************************************************************)
SweepOps == {"emptyCachedMem", "releaseAllDeviceMem"}

\* C13: a sweep in which no operation throws has invoked its own operation
\* (empty_cache for emptyCachedMem, release_all_memory for
\* releaseAllDeviceMem) exactly once on every caching allocator in
\* used_allocator and on no other allocator; in particular never on an
\* allocator made for the host, whatever has been instantiated so far.
C13_SweepVisitsUsedAllocatorsOnce ==
    (lastCall.op \in SweepOps /\ lastCall.error = NoError) =>
        /\ lastCall.operation = (IF lastCall.op = "emptyCachedMem"
                                 THEN "empty_cache" ELSE "release_all_memory")
        /\ \A a \in created :
              lastCall.invoked[a] =
                 (IF a \in used_allocator /\ IsCacheAllocator(a) THEN 1 ELSE 0)
        /\ \A a \in created : a.type = CPU => lastCall.invoked[a] = 0
        /\ allocator_lookup_table[host_index] # Null =>
              lastCall.invoked[allocator_lookup_table[host_index]] = 0

\* A sweep has run to its end while a host allocator and the allocators of
\* two accelerator devices exist.
C13_Witness ==
    /\ lastCall.op \in SweepOps
    /\ lastCall.error = NoError
    /\ allocator_lookup_table[host_index] # Null
    /\ Cardinality(used_allocator) >= 2
    /\ \A a \in used_allocator : lastCall.invoked[a] = 1

\* C14: a sweep isolates the failure of one allocator: when the operation of
\* one allocator in used_allocator throws, the sweep has still invoked the
\* operation once on every other caching allocator of the set.
C14_SweepIsolatesFailures ==
    (lastCall.op \in SweepOps /\ lastCall.error # NoError) =>
        \A a \in used_allocator :
            (IsCacheAllocator(a) /\ a # lastCall.error.from) =>
                lastCall.invoked[a] = 1

(***************************************************************************)
(* Failures of the event calls of the proxy.                               *)
(***************************************************************************)
ProxyOps == AllocateOps \cup {"allocate event failure"}

\* C15: when the creation, the record or the wait of the event fails during
\* the proxy's allocate on a non-default stream, the call ends in that
\* device-runtime failure: the underlying allocator's allocate is not among
\* the calls made, no allocator is looked up or created, and no block, queue
\* or lookup-table entry has changed.
C15_EventFailureStopsAllocate ==
    [][(lastCall'.op \in ProxyOps /\ lastCall'.failing # "none") =>
        /\ lastCall'.op = "allocate event failure"
        /\ \A i \in 1..Len(lastCall'.calls) : lastCall'.calls[i] # Delegate
        /\ blocks' = blocks
        /\ queue' = queue
        /\ allocator_lookup_table' = allocator_lookup_table
        /\ used_allocator' = used_allocator
        /\ created' = created]_vars

\* The wait failed in an allocate made on a non-default stream while a block
\* could have been handed out.
C15_Witness ==
    /\ lastCall.op = "allocate event failure"
    /\ lastCall.failing = "wait"
    /\ lastCall.stream # defaultStream
    /\ \E b \in Blocks : blocks[b].state # "live"

(***************************************************************************)
(* recordStream.                                                           *)
(***************************************************************************)
\* C16: recordStream(ptr, s) only adds, and adds s: afterwards s is in the
\* recorded-streams set of the allocation, every stream that was in the set
\* is still in it, the set is unchanged when s was already in it, and the
\* sets of the other allocations are untouched; on a DataPtr without a
\* context no block changes at all.
C16_RecordStreamOnlyAdds ==
    [][lastCall'.op = "recordStream" =>
        IF lastCall'.ptr # NullCtx
        THEN LET b == lastCall'.ptr IN
             /\ lastCall'.stream \in blocks'[b].streams
             /\ blocks[b].streams \subseteq blocks'[b].streams
             /\ blocks'[b].streams \subseteq blocks[b].streams \cup {lastCall'.stream}
             /\ lastCall'.stream \in blocks[b].streams =>
                    blocks'[b].streams = blocks[b].streams
             /\ \A c \in Blocks \ {b} : blocks'[c] = blocks[c]
        ELSE blocks' = blocks]_vars

\* Two different streams have been recorded against one live allocation.
C16_Witness ==
    /\ lastCall.op = "recordStream"
    /\ lastCall.ptr # NullCtx
    /\ blocks[lastCall.ptr].streams = Streams

(***************************************************************************)
(* The statistics.                                                         *)
(***************************************************************************)
\* C17 as stated: memoryReserved(device), called right after an
\* emptyCachedMem() that completed, returns 0 when the allocator serving the
\* device has no outstanding allocation, for every device argument,
\* accelerator or host.
C17_ReservedZeroAfterEmptyCache ==
    (/\ lastCall.op = "stats"
     /\ lastCall.error = NoError
     /\ lastCall.follows.op = "emptyCachedMem"
     /\ memory_allocated(blocks, lastCall.result) = 0)
    => lastCall.values.memoryReserved = 0

\* C17, amended: the same for the devices of the accelerator type only; the
\* host allocator is not in used_allocator and keeps its cached blocks.
C17_ReservedZeroAfterEmptyCacheOnDevice ==
    (/\ lastCall.op = "stats"
     /\ lastCall.error = NoError
     /\ lastCall.follows.op = "emptyCachedMem"
     /\ lastCall.device.type = DIPU
     /\ memory_allocated(blocks, lastCall.result) = 0)
    => lastCall.values.memoryReserved = 0

\* memoryReserved of an accelerator device is queried right after an
\* emptyCachedMem that returned a cached block to the device.
C17_Witness ==
    /\ lastCall.op = "stats"
    /\ lastCall.error = NoError
    /\ lastCall.follows.op = "emptyCachedMem"
    /\ lastCall.follows.released # {}
    /\ lastCall.device.type = DIPU
    /\ lastCall.result \in DOMAIN max_allocated
    /\ memory_allocated(blocks, lastCall.result) = 0

\* C18 as stated: maxMemoryAllocated(device) never returns less than an
\* earlier maxMemoryAllocated call with the same device argument returned,
\* whatever allocations, releases, sweeps and changes of the current device
\* happened in between.
C18_MaxAllocatedNeverDecreases ==
    (lastCall.op = "stats" /\ lastCall.error = NoError) =>
        lastCall.values.maxMemoryAllocated >= lastCall.earlier

\* C18, amended: the same for the device arguments whose slot does not
\* depend on the current device: the host device and the accelerator devices
\* given with an explicit index.
C18_MaxAllocatedNeverDecreasesForFixedSlot ==
    (/\ lastCall.op = "stats"
     /\ lastCall.error = NoError
     /\ (is_cpu(lastCall.device) \/ has_index(lastCall.device)))
    => lastCall.values.maxMemoryAllocated >= lastCall.earlier

\* A device given with its index is queried again after an earlier query
\* returned a non-zero high-water mark, the block has been released and the
\* current device is another one.
C18_Witness ==
    /\ lastCall.op = "stats"
    /\ lastCall.error = NoError
    /\ has_index(lastCall.device)
    /\ lastCall.device.type = DIPU
    /\ lastCall.device.index # current_device
    /\ lastCall.earlier >= 1
    /\ lastCall.values.memoryAllocated = 0
    /\ lastCall.values.maxMemoryAllocated >= 1

(***************************************************************************)
(* The selected algorithm names.                                           *)
(***************************************************************************)
\* C19: the two algorithm names are what the environment held when the
\* static initialisers ran ("BF" for a variable that was unset then) and
\* never change afterwards; an allocator created later is made by the getter
\* registered under that name for its device type, whatever the environment
\* holds at the time of the creation.
C19_AlgorithmNamesResolvedOnce ==
    [][/\ dipu_device_memcaching_algorithm' = dipu_device_memcaching_algorithm
       /\ dipu_host_memcaching_algorithm' = dipu_host_memcaching_algorithm
       /\ dipu_device_memcaching_algorithm =
             (IF startup_environ["DIPU_DEVICE_MEMCACHING_ALGORITHM"] = "unset"
              THEN "BF" ELSE startup_environ["DIPU_DEVICE_MEMCACHING_ALGORITHM"])
       /\ dipu_host_memcaching_algorithm =
             (IF startup_environ["DIPU_HOST_MEMCACHING_ALGORITHM"] = "unset"
              THEN "BF" ELSE startup_environ["DIPU_HOST_MEMCACHING_ALGORITHM"])
       /\ (lastCall'.op = "getAllocator" /\ lastCall'.fresh) =>
             LET device_type == lastCall'.device.type
                 at_startup == startup_environ[
                                  IF device_type = DIPU
                                  THEN "DIPU_DEVICE_MEMCACHING_ALGORITHM"
                                  ELSE "DIPU_HOST_MEMCACHING_ALGORITHM"]
                 name == IF at_startup = "unset" THEN "BF" ELSE at_startup IN
             lastCall'.result.getter = registry[device_type][name].getter]_vars

\* An accelerator allocator has been created by the getter of the default
\* algorithm after the device variable, unset at startup, was set to the
\* other algorithm's name.
C19_Witness ==
    /\ lastCall.op = "getAllocator"
    /\ lastCall.fresh
    /\ lastCall.device.type = DIPU
    /\ startup_environ["DIPU_DEVICE_MEMCACHING_ALGORITHM"] = "unset"
    /\ environ["DIPU_DEVICE_MEMCACHING_ALGORITHM"] = "BS"
    /\ lastCall.result.getter = "g1"

(***************************************************************************)
(* Locking.                                                                *)
(***************************************************************************)
\* C20: every access to the registry and to the lookup table is made under
\* the table's mutex: a thread that is inside createAllocator holds
\* dipu_register_allocator_mutex, so it never runs while another thread is in
\* setAllocator's critical section, and no two threads are at the same time
\* between the test and the store of the same slot of the lookup table.
C20_TablesAccessedUnderMutex ==
    /\ \A t \in Threads :
          pc[t] = "create" => dipu_register_allocator_mutex = t
    /\ \A t, u \in Threads :
          (pc[t] = "create" /\ pc[u] = "registering") => t = u
    /\ \A t, u \in Threads :
          (/\ pc[t] \in {"create", "store"}
           /\ pc[u] \in {"create", "store"}
           /\ frame[t].device_index = frame[u].device_index) => t = u

(***************************************************************************)
(* used_allocator and the slots of the lookup table.                       *)
(***************************************************************************)
\* The slots of the accelerator devices; the trailing slot is the host's.
DeviceSlots == 0..(DeviceCount - 1)

\* C21: after any sequence of calls used_allocator is exactly the set of the
\* allocators held by the accelerator slots of the lookup table, which is
\* also the set of all allocators created for the accelerator device type;
\* no allocator created for the host and no allocator that is in no slot is
\* a member.
C21_UsedSetIsAcceleratorSlots ==
    /\ used_allocator =
          {allocator_lookup_table[i] : i \in DeviceSlots} \ {Null}
    /\ used_allocator = {a \in created : a.type = DIPU}
    /\ \A a \in used_allocator :
          /\ a.type # CPU
          /\ a # allocator_lookup_table[host_index]
          /\ \E i \in Slots : allocator_lookup_table[i] = a

\* The host allocator and the allocators of two accelerator devices have
\* been created; the last call returned the host allocator.
C21_Witness ==
    /\ lastCall.op = "getAllocator"
    /\ lastCall.error = NoError
    /\ lastCall.device.type = CPU
    /\ lastCall.result = allocator_lookup_table[host_index]
    /\ lastCall.result \notin used_allocator
    /\ Cardinality(used_allocator) >= 2

(***************************************************************************)
(* Memoisation against later registrations.                                *)
(***************************************************************************)
\* C22: a getAllocator call whose slot is already filled returns the content
\* of the slot and resolves nothing: no getter is invoked, no allocator is
\* made, the table and the registry stay as they are.  A setAllocator call,
\* whatever it registers, invokes no getter and changes no slot either; so a
\* registration of higher priority made after the slot was filled changes
\* neither the number of constructions nor the allocator returned.
C22_FilledSlotNotResolvedAgain ==
    [][/\ (/\ lastCall'.op = "getAllocator"
           /\ allocator_lookup_table[lastCall'.slot] # Null)
            => /\ lastCall'.error = NoError
               /\ lastCall'.result = allocator_lookup_table[lastCall'.slot]
               /\ ~lastCall'.fresh
               /\ ctorCalls' = ctorCalls
               /\ created' = created
               /\ allocator_lookup_table' = allocator_lookup_table
               /\ registry' = registry
       /\ lastCall'.op = "setAllocator"
            => /\ ctorCalls' = ctorCalls
               /\ created' = created
               /\ allocator_lookup_table' = allocator_lookup_table]_vars

\* getAllocator has returned the allocator of a filled accelerator slot after
\* a registration of higher priority replaced the getter that made it.
C22_Witness ==
    /\ lastCall.op = "getAllocator"
    /\ lastCall.error = NoError
    /\ ~lastCall.fresh
    /\ lastCall.device.type = DIPU
    /\ ctorCalls[lastCall.slot] = 1
    /\ Cardinality(created) = 1
    /\ lastCall.result.getter
          # registry[DIPU][dipu_device_memcaching_algorithm].getter
    /\ registry[DIPU][dipu_device_memcaching_algorithm].priority >= 1

(***************************************************************************)
(* Devices without an index.                                               *)
(***************************************************************************)
DelegatedOps == {"allocate new", "allocate reused", "allocate out of memory"}

\* C23: a call made with an accelerator device that has no index uses the
\* slot of the device that is current when the call is made.  The proxy's
\* allocate obtains the allocator of the current device's slot, an allocator
\* made for that device's index, and the block it hands out belongs to that
\* allocator; getAllocator with an index-less accelerator device, which is
\* what getAllocator(device type) calls, computes the current device's slot
\* and returns its content.
C23_IndexlessDeviceFollowsCurrentDevice ==
    [][/\ lastCall'.op \in DelegatedOps
            => /\ lastCall'.allocator # Null
               /\ lastCall'.allocator = allocator_lookup_table'[current_device]
               /\ lastCall'.allocator.arg = current_device
               /\ \A b \in Blocks :
                     blocks'[b] # blocks[b]
                        => blocks'[b].owner = allocator_lookup_table'[current_device]
       /\ (/\ lastCall'.op = "getAllocator"
           /\ lastCall'.device = [type |-> DIPU, index |-> NoIndex]
           /\ lastCall'.error = NoError)
            => /\ lastCall'.slot = current_device
               /\ lastCall'.result = allocator_lookup_table'[current_device]
               /\ lastCall'.result.arg = current_device]_vars

\* The proxy has allocated a new block from the allocator of device 1, the
\* current device, while the slot of device 0 holds another allocator.
C23_Witness ==
    /\ lastCall.op = "allocate new"
    /\ current_device = 1
    /\ allocator_lookup_table[0] # Null
    /\ lastCall.allocator = allocator_lookup_table[1]
    /\ lastCall.allocator # allocator_lookup_table[0]
    /\ \E b \in Blocks : blocks[b].owner = allocator_lookup_table[1]

(***************************************************************************)
(* The index given to the getter.                                          *)
(***************************************************************************)
\* C24 as stated: the getter that makes the allocator of a slot is invoked
\* with the index of that slot, for accelerator devices and for the host.
C24_GetterIndexIsSlotIndex ==
    (lastCall.op = "getAllocator" /\ lastCall.fresh)
        => lastCall.result.arg = lastCall.slot

\* C24, amended: on the first access for a slot the getter of an accelerator
\* device is invoked with the index of the slot, which is the device's own
\* index when it has one and the current device otherwise; the getter of the
\* host device is invoked with index 0, while its allocator is stored in the
\* trailing slot.
C24_GetterIndexIsSlotIndexOnDevice ==
    (lastCall.op = "getAllocator" /\ lastCall.fresh)
        => IF lastCall.device.type = CPU
           THEN /\ lastCall.result.arg = 0
                /\ lastCall.slot = DeviceCount
           ELSE /\ lastCall.result.arg = lastCall.slot
                /\ lastCall.slot \in DeviceSlots
                /\ lastCall.device.index # NoIndex
                      => lastCall.slot = lastCall.device.index
                /\ lastCall.device.index = NoIndex
                      => lastCall.slot = current_device

\* The host allocator has just been made, after the allocator of device 1.
C24_Witness ==
    /\ lastCall.op = "getAllocator"
    /\ lastCall.fresh
    /\ lastCall.device.type = CPU
    /\ lastCall.result = allocator_lookup_table[DeviceCount]
    /\ allocator_lookup_table[1] # Null
    /\ allocator_lookup_table[1].arg = 1

(***************************************************************************)
(* What the sweeps leave alone.                                            *)
(***************************************************************************)
\* C25: emptyCachedMem and releaseAllDeviceMem, whether they run to the end
\* or are ended by a failing allocator, destroy and detach nothing: every
\* slot of the lookup table, used_allocator, the set of allocators made and
\* the registry are the same after the call as before it, so for every
\* device getAllocator returns after the sweep what it returned before.
C25_SweepsKeepAllocators ==
    [][lastCall'.op \in SweepOps =>
          /\ allocator_lookup_table' = allocator_lookup_table
          /\ used_allocator' = used_allocator
          /\ created' = created
          /\ ctorCalls' = ctorCalls
          /\ registryPtr' = registryPtr
          /\ registry' = registry
          /\ \A device \in Devices :
                getAllocator(device)'.result = getAllocator(device).result]_vars

\* releaseAllDeviceMem has run over the allocators of two accelerator
\* devices, each of which is still in its slot, next to the host allocator.
C25_Witness ==
    /\ lastCall.op = "releaseAllDeviceMem"
    /\ lastCall.error = NoError
    /\ Cardinality(used_allocator) >= 2
    /\ \A a \in used_allocator :
          /\ lastCall.invoked[a] = 1
          /\ \E i \in DeviceSlots : allocator_lookup_table[i] = a
    /\ allocator_lookup_table[host_index] # Null

(***************************************************************************)
(* Resolution and the registry.                                            *)
(***************************************************************************)
\* C26: resolution is a pure lookup: a getAllocator call, whether it returns
\* an allocator or fails because no algorithm is registered, leaves the
\* registry as it was, with the same device-type keys, the same names under
\* each key and the same entries.
C26_ResolutionIsPureLookup ==
    [][lastCall'.op = "getAllocator" =>
          /\ DOMAIN registry' = DOMAIN registry
          /\ \A d \in DOMAIN registry :
                /\ DOMAIN registry'[d] = DOMAIN registry[d]
                /\ \A n \in DOMAIN registry[d] : registry'[d][n] = registry[d][n]]_vars

(***************************************************************************)
(* The bounds of the lookup table.                                         *)
(***************************************************************************)
\* C27: for every device argument the index getAllocator computes lies in
\* 0..device_count, the index device_count is computed for the host device
\* only, and so the trailing slot never holds anything but the allocator
\* made for the host.
C27_LookupIndexInBounds ==
    /\ lastCall.op = "getAllocator"
          => /\ lastCall.slot \in 0..DeviceCount
             /\ lastCall.slot = DeviceCount => lastCall.device.type = CPU
    /\ allocator_lookup_table[host_index] # Null
          => allocator_lookup_table[host_index].type = CPU

====
